---- MODULE Spec2Model ----
(***************************************************************************)
(* The token-security risk classifier of plugin-token-trending             *)
(* (src/actions/findTrending.ts, calculateRiskLevel) as a state machine,   *)
(* and the handlers of the actions of plugin-token-trending and of the     *)
(* google-search plugin, one invocation at a time.                         *)
(*                                                                         *)
(* A JavaScript string is a sequence of one-character strings, so that     *)
(* parseFloat can be modelled by what it does to the characters.  A        *)
(* TokenSecurityInfo object is a function from the property names that are *)
(* present on the object to their string values; a property the API did    *)
(* not send is outside the function's domain and reads as undefined.       *)
(***************************************************************************)
EXTENDS Integers, Sequences, FiniteSets

VARIABLES
    info,       \* the argument of the current call of calculateRiskLevel
    riskScore,  \* the local riskScore of the last call, as it stood at return
    riskLevel,  \* the value the last call returned
    pc,         \* "call": a call is about to run; "return": it has returned;
                \* "throw": it has ended with an exception; "rendered":
                \* formatSecurityResponse has returned its text
    calls,      \* number of calls made so far
    first,      \* history: facts and outcome of the first call made
    recommendation, \* the sentence formatSecurityResponse put in its text
    callers,    \* the callers that use the classifier side by side
    action,     \* the action whose handler was invoked
    hpc,        \* where the handler invocation stands
    params,     \* the parameters the handler extracted from the message
    requests,   \* the outbound HTTP requests of the invocation, as issued
    messages,   \* what the handler gave to the user callback, in order
    ret,        \* what the handler returned
    trendingTokens  \* the local trendingTokens of findTrendingTokens

classifierVars == <<info, riskScore, riskLevel, pc, calls, first>>
handlerVars ==
    <<action, hpc, params, requests, messages, ret, trendingTokens>>

vars ==
    <<info, riskScore, riskLevel, pc, calls, first, recommendation, callers,
      action, hpc, params, requests, messages, ret, trendingTokens>>

----------------------------------------------------------------------------
(* Bounds of the model *)

\* scores given to the threshold cascade range over 0..MaxScore
MaxScore == 700
\* calls of calculateRiskLevel in one behaviour of SpecCalls
MaxCalls == 3
\* callers that use the classifier side by side in SpecCallers
MaxCallers == 2
\* the largest limit extracted for findTrendingTokens
MaxLimit == 2
\* the most coins in the trending list of CoinGecko
MaxCoins == 3
\* the most boosts in the answer of DexScreener
MaxBoosts == 2
\* the most pools in the answer of DefiLlama
MaxPools == 2

----------------------------------------------------------------------------
(* JavaScript values *)

Undefined == [type |-> "undefined", str |-> <<>>]
String(s) == [type |-> "string", str |-> s]

\* info.<name>: the property's value, undefined when the object lacks it
Get(obj, name) ==
    IF name \in DOMAIN obj THEN String(obj[name]) ELSE Undefined

\* a === b
StrictEquals(a, b) == a.type = b.type /\ a.str = b.str

\* ToString(v), as parseFloat applies it to its argument
ToString(v) ==
    IF v.type = "undefined"
    THEN <<"u", "n", "d", "e", "f", "i", "n", "e", "d">>
    ELSE v.str

----------------------------------------------------------------------------
(* parseFloat *)

Digits == {"0", "1", "2", "3", "4", "5", "6", "7", "8", "9"}
WhiteSpace == {" "}

DigitVal(c) ==
    CASE c = "0" -> 0 [] c = "1" -> 1 [] c = "2" -> 2 [] c = "3" -> 3
      [] c = "4" -> 4 [] c = "5" -> 5 [] c = "6" -> 6 [] c = "7" -> 7
      [] c = "8" -> 8 [] c = "9" -> 9

RECURSIVE TrimStart(_)
TrimStart(s) ==
    IF s # <<>> /\ Head(s) \in WhiteSpace THEN TrimStart(Tail(s)) ELSE s

\* the longest prefix of s made of decimal digits
RECURSIVE DigitRun(_)
DigitRun(s) ==
    IF s # <<>> /\ Head(s) \in Digits
    THEN <<Head(s)>> \o DigitRun(Tail(s))
    ELSE <<>>

Drop(s, n) == SubSeq(s, n + 1, Len(s))

StartsWith(s, p) == Len(s) >= Len(p) /\ SubSeq(s, 1, Len(p)) = p

RECURSIVE DigitsValue(_)
DigitsValue(d) ==
    IF d = <<>> THEN 0
    ELSE 10 * DigitsValue(SubSeq(d, 1, Len(d) - 1)) + DigitVal(d[Len(d)])

RECURSIVE Pow10(_)
Pow10(n) == IF n = 0 THEN 1 ELSE 10 * Pow10(n - 1)

\* A Number: NaN, +-Infinity, or the finite value (-1)^neg * mant * 10^exp.
NaN == [kind |-> "NaN", neg |-> FALSE, mant |-> 0, exp |-> 0]
Infinity(neg) == [kind |-> "Infinity", neg |-> neg, mant |-> 0, exp |-> 0]
Finite(neg, mant, exp) ==
    [kind |-> "finite", neg |-> neg, mant |-> mant, exp |-> exp]

\* parseFloat(v): ToString, trim leading white space, then the value of the
\* longest prefix that is a StrDecimalLiteral; NaN when there is none.
parseFloat(v) ==
    LET t == TrimStart(ToString(v))
        signed == t # <<>> /\ Head(t) \in {"+", "-"}
        neg == t # <<>> /\ Head(t) = "-"
        u == IF signed THEN Tail(t) ELSE t
        ip == DigitRun(u)
        afterInt == Drop(u, Len(ip))
        hasDot == afterInt # <<>> /\ Head(afterInt) = "."
        fp == IF hasDot THEN DigitRun(Tail(afterInt)) ELSE <<>>
        afterFrac == IF hasDot THEN Drop(afterInt, 1 + Len(fp)) ELSE afterInt
        hasE == afterFrac # <<>> /\ Head(afterFrac) \in {"e", "E"}
        afterE == IF hasE THEN Tail(afterFrac) ELSE <<>>
        expSigned == afterE # <<>> /\ Head(afterE) \in {"+", "-"}
        expNeg == afterE # <<>> /\ Head(afterE) = "-"
        ep == DigitRun(IF expSigned THEN Tail(afterE) ELSE afterE)
        e == IF expNeg THEN 0 - DigitsValue(ep) ELSE DigitsValue(ep)
    IN  IF StartsWith(u, <<"I", "n", "f", "i", "n", "i", "t", "y">>)
        THEN Infinity(neg)
        ELSE IF ip = <<>> /\ fp = <<>>
        THEN NaN
        ELSE Finite(neg, DigitsValue(ip \o fp), e - Len(fp))

\* Faulty variant of GreaterThan: a comparison with NaN counts as true.
GreaterThanFailClosed(x, n) ==
    CASE x.kind = "NaN" -> TRUE
      [] x.kind = "Infinity" -> ~x.neg
      [] x.kind = "finite" ->
            /\ ~x.neg
            /\ IF x.exp >= 0
               THEN x.mant * Pow10(x.exp) > n
               ELSE x.mant > n * Pow10(0 - x.exp)

\* Faulty variant of GreaterThan: >= in place of >.
GreaterThanOrEqual(x, n) ==
    CASE x.kind = "NaN" -> FALSE
      [] x.kind = "Infinity" -> ~x.neg
      [] x.kind = "finite" ->
            /\ ~x.neg
            /\ IF x.exp >= 0
               THEN x.mant * Pow10(x.exp) >= n
               ELSE x.mant >= n * Pow10(0 - x.exp)

\* x > n for a Number x and a natural number n (NaN > n is false)
GreaterThan(x, n) ==
    CASE x.kind = "NaN" -> FALSE
      [] x.kind = "Infinity" -> ~x.neg
      [] x.kind = "finite" ->
            /\ ~x.neg
            /\ IF x.exp >= 0
               THEN x.mant * Pow10(x.exp) > n
               ELSE x.mant > n * Pow10(0 - x.exp)

----------------------------------------------------------------------------
(* calculateRiskLevel *)

One == <<"1">>
Zero == <<"0">>

\* `if (cond) riskScore += weight;`
AddIf(cond, weight) == IF cond THEN weight ELSE 0

\* info.<flag> === "1"
IsSet(i, flag) == StrictEquals(Get(i, flag), String(One))

\* Faulty variant of NotOpenSource: the flag compared with "1".
NotOpenSourceInverted(i) == StrictEquals(Get(i, "is_open_source"), String(One))

\* info.is_open_source === "0"
NotOpenSource(i) == StrictEquals(Get(i, "is_open_source"), String(Zero))

\* Faulty variant of TaxExceeds: && in place of ||.
TaxExceedsBoth(i) ==
    /\ GreaterThan(parseFloat(Get(i, "buy_tax")), 10)
    /\ GreaterThan(parseFloat(Get(i, "sell_tax")), 10)

\* parseFloat(info.buy_tax) > 10 || parseFloat(info.sell_tax) > 10
TaxExceeds(i) ==
    \/ GreaterThan(parseFloat(Get(i, "buy_tax")), 10)
    \/ GreaterThan(parseFloat(Get(i, "sell_tax")), 10)

\* Faulty variant of Additions: is_blacklisted counted with the medium
\* risks.
AdditionsWithBlacklist(i) ==
    << AddIf(IsSet(i, "is_honeypot"), 100),
       AddIf(IsSet(i, "hidden_owner"), 90),
       AddIf(IsSet(i, "selfdestruct"), 80),
       AddIf(IsSet(i, "honeypot_with_same_creator"), 100),
       AddIf(IsSet(i, "can_take_back_ownership"), 70),
       AddIf(NotOpenSource(i), 60),
       AddIf(TaxExceeds(i), 70),
       AddIf(IsSet(i, "is_mintable"), 40),
       AddIf(IsSet(i, "transfer_pausable"), 30),
       AddIf(IsSet(i, "is_proxy") \/ IsSet(i, "is_blacklisted"), 20),
       AddIf(IsSet(i, "trading_cooldown"), 30) >>

\* the eleven conditional additions, in the order of the source
Additions(i) ==
    << \* Critical risks
       AddIf(IsSet(i, "is_honeypot"), 100),
       AddIf(IsSet(i, "hidden_owner"), 90),
       AddIf(IsSet(i, "selfdestruct"), 80),
       AddIf(IsSet(i, "honeypot_with_same_creator"), 100),
       \* High risks
       AddIf(IsSet(i, "can_take_back_ownership"), 70),
       AddIf(NotOpenSource(i), 60),
       AddIf(TaxExceeds(i), 70),
       \* Medium risks
       AddIf(IsSet(i, "is_mintable"), 40),
       AddIf(IsSet(i, "transfer_pausable"), 30),
       AddIf(IsSet(i, "is_proxy"), 20),
       AddIf(IsSet(i, "trading_cooldown"), 30) >>

\* Faulty variant of InitialRiskScore: the score is kept between calls.
StaleRiskScore == riskScore

\* `let riskScore = 0;`: the local starts at 0 in every call
InitialRiskScore == 0

\* Faulty variant of Total: the score capped at 100.
TotalCapped(adds) ==
    LET sum == InitialRiskScore
            + adds[1] + adds[2] + adds[3] + adds[4] + adds[5] + adds[6]
            + adds[7] + adds[8] + adds[9] + adds[10] + adds[11]
    IN  IF sum > 100 THEN 100 ELSE sum

\* riskScore after the additions: `+=` applied, one after the other, to the
\* initial value
Total(adds) ==
    InitialRiskScore
        + adds[1] + adds[2] + adds[3] + adds[4] + adds[5] + adds[6]
        + adds[7] + adds[8] + adds[9] + adds[10] + adds[11]

\* Faulty variants of DetermineRiskLevel: > in place of >=; the labels of
\* two tiers exchanged; the final `return "SAFE"` left out.
DetermineRiskLevelExclusive(score) ==
    IF score > 100 THEN "CRITICAL"
    ELSE IF score > 70 THEN "HIGH"
    ELSE IF score > 40 THEN "MEDIUM"
    ELSE IF score > 20 THEN "LOW"
    ELSE "SAFE"
DetermineRiskLevelSwapped(score) ==
    IF score >= 100 THEN "CRITICAL"
    ELSE IF score >= 70 THEN "MEDIUM"
    ELSE IF score >= 40 THEN "HIGH"
    ELSE IF score >= 20 THEN "LOW"
    ELSE "SAFE"
DetermineRiskLevelNoDefault(score) ==
    IF score >= 100 THEN "CRITICAL"
    ELSE IF score >= 70 THEN "HIGH"
    ELSE IF score >= 40 THEN "MEDIUM"
    ELSE IF score >= 20 THEN "LOW"
    ELSE "undefined"

\* "Determine risk level": the threshold cascade, first match returns
DetermineRiskLevel(score) ==
    IF score >= 100 THEN "CRITICAL"
    ELSE IF score >= 70 THEN "HIGH"
    ELSE IF score >= 40 THEN "MEDIUM"
    ELSE IF score >= 20 THEN "LOW"
    ELSE "SAFE"

\* The sentence getRecommendation returns when no case matches
InsufficientData ==
    "*RECOMMENDATION:* Insufficient data to make a recommendation."

\* Faulty variant of getRecommendation: the case labels in another spelling
\* than the one calculateRiskLevel returns, so that none matches
getRecommendationCapitalized(level) ==
    CASE level = "Critical" ->
            "*RECOMMENDATION:* Do not interact with this token. Multiple critical security risks detected."
      [] level = "High" ->
            "*RECOMMENDATION:* Extreme caution advised. High-risk security issues present."
      [] level = "Medium" ->
            "*RECOMMENDATION:* Proceed with caution. Some security concerns identified."
      [] level = "Low" ->
            "*RECOMMENDATION:* Generally safe, but always conduct your own research."
      [] level = "Safe" ->
            "*RECOMMENDATION:* Token appears safe based on security analysis."
      [] OTHER -> InsufficientData

\* getRecommendation: a switch on the tier, with a default (the leading
\* emoji of each sentence is left out)
getRecommendation(level) ==
    CASE level = "CRITICAL" ->
            "*RECOMMENDATION:* Do not interact with this token. Multiple critical security risks detected."
      [] level = "HIGH" ->
            "*RECOMMENDATION:* Extreme caution advised. High-risk security issues present."
      [] level = "MEDIUM" ->
            "*RECOMMENDATION:* Proceed with caution. Some security concerns identified."
      [] level = "LOW" ->
            "*RECOMMENDATION:* Generally safe, but always conduct your own research."
      [] level = "SAFE" ->
            "*RECOMMENDATION:* Token appears safe based on security analysis."
      [] OTHER -> InsufficientData

\* Whether a statement of the function throws.  The function has no throw
\* statement and calls only parseFloat; reading a property an object lacks
\* gives undefined, and parseFloat(undefined) gives NaN: nothing throws.
Throws(i) == FALSE

\* what the call leaves in the object it was given: the function only reads
\* properties of info and assigns to none
ArgumentAfterCall(i) == i

----------------------------------------------------------------------------
(* The inputs *)

RiskFlags ==
    {"is_honeypot", "hidden_owner", "selfdestruct",
     "honeypot_with_same_creator", "can_take_back_ownership",
     "is_mintable", "transfer_pausable", "is_proxy", "trading_cooldown"}
Flags == RiskFlags \cup {"is_open_source"}
Taxes == {"buy_tax", "sell_tax"}

\* the two values the API documents for a flag
FlagStrings == {One, Zero}
\* values of a flag outside the convention: empty, "true"
OddFlagStrings == {<<>>, <<"t", "r", "u", "e">>}
\* values of a tax field: numbers, a number followed by text, text, empty
TaxStrings ==
    {<<"1", "0">>, <<"1", "5">>, <<"1", "0", ".", "5">>, <<"1", "e", "2">>,
     <<"a", "b", "c">>, <<"1", "5", "a", "b", "c">>, <<>>}

Merge(f, g) ==
    [x \in DOMAIN f \cup DOMAIN g |-> IF x \in DOMAIN f THEN f[x] ELSE g[x]]
Without(f, name) == [x \in DOMAIN f \ {name} |-> f[x]]
With(f, name, value) ==
    [x \in DOMAIN f \cup {name} |-> IF x = name THEN value ELSE f[x]]

\* each tax field absent or holding one of TaxStrings
TaxParts == UNION {[present -> TaxStrings] : present \in SUBSET Taxes}

\* every flag "0" or "1", the tax fields anything
ConventionalFacts ==
    {Merge(f, t) : f \in [Flags -> FlagStrings], t \in TaxParts}

\* one flag missing or outside the convention, no tax fields
UnconventionalFacts ==
    UNION {{Without(f, k)} \cup {With(f, k, odd) : odd \in OddFlagStrings} :
           f \in [Flags -> FlagStrings], k \in Flags}

\* Objects that lack properties: any of the twelve properties may be absent;
\* a flag that is present is "1" and a tax field that is present is "abc".
\* And objects with no flag at all, the tax fields anything.
SparseInputs ==
    {[x \in present |-> IF x \in Flags THEN One ELSE <<"a", "b", "c">>] :
        present \in SUBSET (Flags \cup Taxes)}
    \cup TaxParts

Inputs == ConventionalFacts \cup UnconventionalFacts \cup SparseInputs

\* the facts the callers of SpecCalls pass: three flags and the buy tax vary
FewInputs ==
    {Merge([k \in Flags |->
                IF k \in {"is_honeypot", "is_open_source", "is_proxy"}
                THEN f[k] ELSE Zero], t) :
        f \in [{"is_honeypot", "is_open_source", "is_proxy"} -> FlagStrings],
        t \in {<<>>} \cup {[k \in {"buy_tax"} |-> <<"1", "5">>]}}

----------------------------------------------------------------------------
(* The state machine *)

NoCall == [facts |-> <<>>, score |-> 0, level |-> "none"]

\* no handler has been invoked
NoHandler ==
    /\ action = "none"
    /\ hpc = "idle"
    /\ params = <<>>
    /\ requests = <<>>
    /\ messages = <<>>
    /\ ret = "none"
    /\ trendingTokens = <<>>

\* nothing rendered, no side-by-side callers
NoResponse == recommendation = "none" /\ callers = <<>>

Start ==
    /\ riskScore = 0
    /\ riskLevel = "none"
    /\ pc = "call"
    /\ calls = 0
    /\ first = NoCall
    /\ NoResponse
    /\ NoHandler

Init == info \in Inputs /\ Start

\* one call calculateRiskLevel(info), from entry to return
calculateRiskLevel ==
    /\ pc = "call"
    /\ LET score == Total(Additions(info)) IN
        /\ riskScore' = score
        /\ riskLevel' = DetermineRiskLevel(score)
        /\ first' = IF calls = 0
                    THEN [facts |-> info, score |-> score,
                          level |-> DetermineRiskLevel(score)]
                    ELSE first
    /\ info' = ArgumentAfterCall(info)
    /\ pc' = IF Throws(info) THEN "throw" ELSE "return"
    /\ calls' = calls + 1
    /\ UNCHANGED <<recommendation, callers, handlerVars>>

Next == calculateRiskLevel

Spec == Init /\ [][Next]_vars

\* The caller (formatSecurityResponse, once per checked token) calls again,
\* with the facts of another token or of the same one.
NextCall ==
    /\ pc = "return"
    /\ calls < MaxCalls
    /\ info' \in FewInputs
    /\ pc' = "call"
    /\ UNCHANGED <<riskScore, riskLevel, calls, first>>
    /\ UNCHANGED <<recommendation, callers, handlerVars>>

InitCalls == info \in FewInputs /\ Start

NextCalls == calculateRiskLevel \/ NextCall

SpecCalls == InitCalls /\ [][NextCalls]_vars

\* formatSecurityResponse(info): it calls calculateRiskLevel(info) first and
\* ends its text with the tier and getRecommendation(riskLevel).  Of the
\* text, the model keeps the tier and the recommendation.
formatSecurityResponse ==
    /\ pc = "call"
    /\ LET score == Total(Additions(info))
           level == DetermineRiskLevel(score) IN
        /\ riskScore' = score
        /\ riskLevel' = level
        /\ recommendation' = getRecommendation(level)
        /\ first' = IF calls = 0
                    THEN [facts |-> info, score |-> score, level |-> level]
                    ELSE first
    /\ info' = ArgumentAfterCall(info)
    /\ pc' = IF Throws(info) THEN "throw" ELSE "rendered"
    /\ calls' = calls + 1
    /\ UNCHANGED <<callers, handlerVars>>

NextFormat == formatSecurityResponse

SpecFormat == Init /\ [][NextFormat]_vars

\* Several callers, each with the facts of its own token (concurrent
\* invocations of checkTokenSecurity, each reaching formatSecurityResponse).
\* calculateRiskLevel has no await: a call runs from entry to return before
\* any other code of the program runs, so the calls interleave as wholes,
\* in any order.  Each call has its own local riskScore.
Callers == 1..MaxCallers

InitCallers ==
    /\ callers \in
        [Callers -> [facts : FewInputs, at : {"call"}, score : {0},
                     level : {"none"}]]
    /\ info = <<>>
    /\ riskScore = 0
    /\ riskLevel = "none"
    /\ pc = "callers"
    /\ calls = 0
    /\ first = NoCall
    /\ recommendation = "none"
    /\ NoHandler

callerCalls(c) ==
    /\ pc = "callers"
    /\ callers[c].at = "call"
    /\ LET facts == callers[c].facts
           score == Total(Additions(facts))
           level == DetermineRiskLevel(score) IN
        /\ callers' = [callers EXCEPT ![c] =
                          [facts |-> ArgumentAfterCall(facts),
                           at |-> IF Throws(facts) THEN "throw" ELSE "return",
                           score |-> score, level |-> level]]
        /\ info' = facts
        /\ riskScore' = score
        /\ riskLevel' = level
    /\ calls' = calls + 1
    /\ UNCHANGED <<pc, first, recommendation, handlerVars>>

NextCallers == \E c \in Callers : callerCalls(c)

SpecCallers == InitCallers /\ [][NextCallers]_vars

\* Two calls, the second with facts that are a variant of the first's: the
\* same weighted fields with other fields changed, or one flag changed
\* towards risk.
WeightedFields == Flags \cup Taxes

\* fields of TokenSecurityInfo that calculateRiskLevel does not read
OtherParts ==
    {Merge(Merge(a, b), h) :
        a \in {<<>>} \cup {[k \in {"is_anti_whale"} |-> v] : v \in FlagStrings},
        b \in {<<>>} \cup {[k \in {"is_blacklisted"} |-> v] : v \in FlagStrings},
        h \in {<<>>, [k \in {"holder_count"} |-> <<"1", "e", "2">>]}}

\* every flag "0" or "1", the buy tax absent or "15"
FlagFacts ==
    {Merge(f, t) :
        f \in [Flags -> FlagStrings],
        t \in {<<>>, [k \in {"buy_tax"} |-> <<"1", "5">>]}}

PairInputs ==
    {Merge(f, o) : f \in FewInputs, o \in OtherParts} \cup FlagFacts

Restrict(f, names) == [x \in DOMAIN f \cap names |-> f[x]]

\* the same weighted fields, the other fields anything
OtherVariants(f) ==
    {Merge(Restrict(f, WeightedFields), o) : o \in OtherParts}

\* one risk flag changed from "0" to "1", or is_open_source from "1" to "0"
Raised(f) ==
    {With(f, k, One) : k \in {c \in RiskFlags \cap DOMAIN f : f[c] = Zero}}
    \cup {With(f, k, Zero) :
            k \in {c \in {"is_open_source"} \cap DOMAIN f : f[c] = One}}

InitPairs == info \in PairInputs /\ Start

NextVariant ==
    /\ pc = "return"
    /\ calls = 1
    /\ info' \in OtherVariants(info) \cup Raised(info)
    /\ pc' = "call"
    /\ UNCHANGED <<riskScore, riskLevel, calls, first>>
    /\ UNCHANGED <<recommendation, callers, handlerVars>>

NextPairs == calculateRiskLevel \/ NextVariant

SpecPairs == InitPairs /\ [][NextPairs]_vars

\* The threshold cascade alone, applied to any score in 0..MaxScore.
InitClassify ==
    /\ info = <<>>
    /\ riskScore \in 0..MaxScore
    /\ riskLevel = "none"
    /\ pc = "scored"
    /\ calls = 0
    /\ first = NoCall
    /\ NoResponse
    /\ NoHandler

classify ==
    /\ pc = "scored"
    /\ riskLevel' = DetermineRiskLevel(riskScore)
    /\ pc' = "return"
    /\ UNCHANGED <<info, riskScore, calls, first>>
    /\ UNCHANGED <<recommendation, callers, handlerVars>>

NextClassify == classify

SpecClassify == InitClassify /\ [][NextClassify]_vars

----------------------------------------------------------------------------
(* The action handlers: one invocation of handler(runtime, message, state, *)
(* options, callback) of one action.  A step of the model is what the      *)
(* handler does between two points where it waits for a response.  The     *)
(* calls to the language model (composeState, generateObjectDeprecated,    *)
(* generateText) are not outbound requests to a data API; what             *)
(* generateObjectDeprecated extracts is the input `params` of the handler. *)
(* The callback is present and returns normally.                           *)

Actions ==
    {"searchGoogle", "getPageContent", "findTrendingTokens", "getGlobalData",
     "getExchanges", "getSimplePrice", "checkTokenSecurity",
     "getTrendingTokensOnChain"}

\* an outbound request as it is issued: the promise is pending
\* (at: the place of the request in the order in which the requests of the
\* invocation settled, 0 while pending; response: what came back, where the
\* model keeps it)
Request(endpoint, arg) ==
    [endpoint |-> endpoint, arg |-> arg, status |-> "pending", at |-> 0,
     response |-> <<>>]

\* Faulty variant of RejectionHandled: the failed request is issued again.
RejectionRetried(reqs, n) ==
    Append(reqs, Request(reqs[n].endpoint, reqs[n].arg))

\* what the catch block that receives the rejection of request number n
\* does to the requests: it logs the error or builds a message, and issues
\* nothing
RejectionHandled(reqs, n) == reqs

\* the promise of request number n settles
Settle(reqs, n, outcome) ==
    LET at == 1 + Cardinality({m \in DOMAIN reqs : reqs[m].at > 0})
        settled == [reqs EXCEPT ![n].status = outcome, ![n].at = at]
    IN IF outcome = "failed" THEN RejectionHandled(settled, n) ELSE settled

\* the response to request number n is response
Respond(reqs, n, response) == [reqs EXCEPT ![n].response = response]

\* how an outbound request can end: with a response, or with a rejection
\* (network error, timeout, status outside 2xx)
Outcomes == {"ok", "failed"}

\* the argument of a callback call; a field that the object literal does
\* not have is "undefined" (type) or <<>> (data)
Message(type, text, data) == [type |-> type, text |-> text, data |-> data]

InitHandlers ==
    /\ action \in Actions
    /\ hpc = "invoked"
    /\ params = <<>>
    /\ requests = <<>>
    /\ messages = <<>>
    /\ ret = "none"
    /\ trendingTokens = <<>>
    /\ info = <<>>
    /\ riskScore = 0
    /\ riskLevel = "none"
    /\ pc = "handler"
    /\ calls = 0
    /\ first = NoCall
    /\ NoResponse

\* Faulty variant of Deliver: the handler returns true whatever the message.
DeliverAndReturnTrue(m, r) ==
    /\ messages' = Append(messages, m)
    /\ ret' = "true"
    /\ hpc' = "returned"

\* the handler returns value r after it has given message m to the callback
Deliver(m, r) ==
    /\ messages' = Append(messages, m)
    /\ ret' = r
    /\ hpc' = "returned"

(* searchGoogle and getPageContent (google-search plugin) *)

\* params of searchGoogle: the query may be missing from what was extracted
SearchParams == {<<>>, [query |-> "eliza token"]}
\* request.data.items: missing, empty, or with results
SearchItems == {"undefined", "none", "some"}

\* searchGoogle.handler up to the request of getGoogleSearchResults.  With
\* no query, args.query.split throws inside the try of
\* getGoogleSearchResults before any request, and { message } comes back.
searchGoogle ==
    /\ action = "searchGoogle"
    /\ hpc = "invoked"
    /\ \E p \in SearchParams :
        /\ params' = p
        /\ IF "query" \in DOMAIN p
           THEN /\ messages' = Append(messages,
                        Message("undefined", "Searching Google...", <<>>))
                /\ requests' = Append(requests,
                        Request("www.googleapis.com/customsearch/v1", p.query))
                /\ hpc' = "getGoogleSearchResults"
                /\ ret' = ret
           ELSE /\ messages' = messages \o
                        <<Message("undefined", "Searching Google...", <<>>),
                          Message("undefined",
                                  "Error: error making google search", <<>>)>>
                /\ requests' = requests
                /\ hpc' = "returned"
                /\ ret' = "false"
    /\ UNCHANGED <<trendingTokens, classifierVars, recommendation, callers,
                   action>>

\* the request of getGoogleSearchResults settles, and the handler runs on to
\* its return
getGoogleSearchResults ==
    /\ action = "searchGoogle"
    /\ hpc = "getGoogleSearchResults"
    /\ \E outcome \in Outcomes, items \in SearchItems :
        /\ requests' = Settle(requests, 1, outcome)
        /\ IF outcome = "failed" \/ items = "undefined"
           THEN Deliver(Message("undefined",
                                "Error: error making google search", <<>>),
                        "false")
           ELSE IF items = "none"
           THEN Deliver(Message("undefined", "No results found.", <<>>),
                        "true")
           ELSE Deliver(Message("undefined", "Search Results:", <<>>), "true")
    /\ UNCHANGED <<params, trendingTokens, classifierVars, recommendation,
                   callers, action>>

\* params of getPageContent
PageParams == {[url |-> "https://example.com/crypto-news"]}

\* getPageContent.handler up to the request of getURLContent
getPageContent ==
    /\ action = "getPageContent"
    /\ hpc = "invoked"
    /\ \E p \in PageParams :
        /\ params' = p
        /\ messages' = Append(messages,
                Message("undefined", "Fetching page content...", <<>>))
        /\ requests' = Append(requests, Request(p.url, <<>>))
        /\ hpc' = "getURLContent"
    /\ UNCHANGED <<ret, trendingTokens, classifierVars, recommendation,
                   callers, action>>

\* the request of getURLContent settles; after a response the summary is
\* asked of the language model (generateText), which can fail too
getURLContent ==
    /\ action = "getPageContent"
    /\ hpc = "getURLContent"
    /\ \E outcome \in Outcomes, summary \in Outcomes :
        /\ requests' = Settle(requests, 1, outcome)
        /\ IF outcome = "failed" \/ summary = "failed"
           THEN Deliver(Message("undefined",
                                "Error: error fetching page content", <<>>),
                        "false")
           ELSE Deliver(Message("undefined", "Summary:", <<>>), "true")
    /\ UNCHANGED <<params, trendingTokens, classifierVars, recommendation,
                   callers, action>>

(* getGlobalData, getExchanges, getSimplePrice (CoinGecko) *)

getGlobalData ==
    /\ action = "getGlobalData"
    /\ hpc = "invoked"
    /\ messages' = Append(messages,
            Message("processing", "Fetching global cryptocurrency data...",
                    <<>>))
    /\ requests' = Append(requests, Request("coingecko/global", <<>>))
    /\ hpc' = "global"
    /\ UNCHANGED <<params, ret, trendingTokens, classifierVars,
                   recommendation, callers, action>>

global ==
    /\ action = "getGlobalData"
    /\ hpc = "global"
    /\ \E outcome \in Outcomes :
        /\ requests' = Settle(requests, 1, outcome)
        /\ IF outcome = "ok"
           THEN Deliver(Message("success",
                                "Global Cryptocurrency Market Data:",
                                "globalData.data"), "true")
           ELSE Deliver(Message("error", "Error fetching global data:", <<>>),
                        "false")
    /\ UNCHANGED <<params, trendingTokens, classifierVars, recommendation,
                   callers, action>>

getExchanges ==
    /\ action = "getExchanges"
    /\ hpc = "invoked"
    /\ messages' = Append(messages,
            Message("processing", "Fetching exchange data...", <<>>))
    /\ requests' = Append(requests, Request("coingecko/exchanges", <<>>))
    /\ hpc' = "exchanges"
    /\ UNCHANGED <<params, ret, trendingTokens, classifierVars,
                   recommendation, callers, action>>

exchanges ==
    /\ action = "getExchanges"
    /\ hpc = "exchanges"
    /\ \E outcome \in Outcomes :
        /\ requests' = Settle(requests, 1, outcome)
        /\ IF outcome = "ok"
           THEN Deliver(Message("success", "Top Cryptocurrency Exchanges:",
                                "exchangesData"), "true")
           ELSE Deliver(Message("error", "Error fetching exchanges data:",
                                <<>>), "false")
    /\ UNCHANGED <<params, trendingTokens, classifierVars, recommendation,
                   callers, action>>

\* what generateObjectDeprecated extracts for getSimplePrice: coin ids and
\* vs currencies, lowercase; either may be missing
CoinLists == {<<"bitcoin">>, <<"solana", "bitcoin">>}
CurrencyLists == {<<"usd">>, <<"eur">>, <<"usd", "eur">>}
PriceParams ==
    {<<>>}
    \cup {[coins |-> c] : c \in CoinLists}
    \cup {[vs_currencies |-> v] : v \in CurrencyLists}
    \cup {[coins |-> c, vs_currencies |-> v] :
            c \in CoinLists, v \in CurrencyLists}

Range(seq) == {seq[n] : n \in DOMAIN seq}

\* the vs_currencies of the request of getSimplePrice: the literal "usd"
\* (a comma-separated list, kept as the list of its elements)
VsCurrencies(p) == <<"usd">>

\* the arguments of client.simplePrice: ids is params.coins.join(","), kept
\* as the list of its elements
SimplePriceArgs(p) == [ids |-> p.coins, vs_currencies |-> VsCurrencies(p)]

\* /simple/price answers with one entry per id, and in it one price per
\* vs currency of the request
SimplePriceResponse(args) ==
    [coin \in Range(args.ids) |->
        [currency \in Range(args.vs_currencies) |-> 1]]

\* getSimplePrice.handler up to client.simplePrice.  Without params.coins,
\* params.coins.join throws inside the try before any request.
getSimplePrice ==
    /\ action = "getSimplePrice"
    /\ hpc = "invoked"
    /\ \E p \in PriceParams :
        /\ params' = p
        /\ IF "coins" \in DOMAIN p
           THEN /\ messages' = Append(messages,
                        Message("processing", "Fetching coin prices...",
                                <<>>))
                /\ requests' = Append(requests,
                        Request("coingecko/simple/price", SimplePriceArgs(p)))
                /\ hpc' = "simplePrice"
                /\ ret' = ret
           ELSE /\ messages' = messages \o
                        <<Message("processing", "Fetching coin prices...",
                                  <<>>),
                          Message("error", "Error fetching price data:",
                                  <<>>)>>
                /\ requests' = requests
                /\ hpc' = "returned"
                /\ ret' = "false"
    /\ UNCHANGED <<trendingTokens, classifierVars, recommendation, callers,
                   action>>

\* client.simplePrice settles; on success the handler returns priceData
\* itself, not true
simplePrice ==
    /\ action = "getSimplePrice"
    /\ hpc = "simplePrice"
    /\ \E outcome \in Outcomes :
        /\ requests' = Settle(requests, 1, outcome)
        /\ IF outcome = "ok"
           THEN Deliver(Message("success", "Current Price:",
                                SimplePriceResponse(requests[1].arg)),
                        "priceData")
           ELSE Deliver(Message("error", "Error fetching price data:", <<>>),
                        "false")
    /\ UNCHANGED <<params, trendingTokens, classifierVars, recommendation,
                   callers, action>>

(* findTrendingTokens (CoinGecko and DexScreener) *)

\* String.prototype.toLowerCase, on the letters of the Latin alphabet
UpperCase ==
    <<"A", "B", "C", "D", "E", "F", "G", "H", "I", "J", "K", "L", "M",
      "N", "O", "P", "Q", "R", "S", "T", "U", "V", "W", "X", "Y", "Z">>
LowerCase ==
    <<"a", "b", "c", "d", "e", "f", "g", "h", "i", "j", "k", "l", "m",
      "n", "o", "p", "q", "r", "s", "t", "u", "v", "w", "x", "y", "z">>
toLowerCase(s) ==
    [n \in DOMAIN s |->
        IF \E k \in DOMAIN UpperCase : UpperCase[k] = s[n]
        THEN LowerCase[CHOOSE k \in DOMAIN UpperCase : UpperCase[k] = s[n]]
        ELSE s[n]]

\* chain names: as a user writes them, and as DexScreener's chainId has them
Base == <<"B", "a", "s", "e">>
base == <<"b", "a", "s", "e">>
bsc == <<"b", "s", "c">>
MultiChain == <<"m", "u", "l", "t", "i", "-", "c", "h", "a", "i", "n">>

\* what generateObjectDeprecated extracts for findTrendingTokens (the
\* handler does not read timeframe): every field may be missing
TrendingChains == {Base, bsc}
TrendingLimits == 0..MaxLimit
TrendingSources == {"all", "coingecko", "dexscreener"}
TrendingParams ==
    {Merge(Merge(c, l), s) :
        c \in {<<>>} \cup {[k \in {"chain"} |-> v] : v \in TrendingChains},
        l \in {<<>>} \cup {[k \in {"limit"} |-> v] : v \in TrendingLimits},
        s \in {<<>>} \cup {[k \in {"source"} |-> v] : v \in TrendingSources}}

\* params.source
Source(p) == IF "source" \in DOMAIN p THEN p.source ELSE "undefined"

\* the 5 of `params.limit || 5`
DefaultLimit == 5

\* params.limit || 5: a missing limit and the limit 0 give 5
LimitOrDefault(p) ==
    IF "limit" \in DOMAIN p /\ p.limit # 0 THEN p.limit ELSE DefaultLimit

\* Faulty variant of Slice: the whole array.
SliceAll(seq, n) == seq

\* seq.slice(0, n), n >= 0
Slice(seq, n) == SubSeq(seq, 1, IF n < Len(seq) THEN n ELSE Len(seq))

\* trendingData.coins: the ids of the coins CoinGecko lists as trending
TrendingCoins == {[n \in 1..len |-> n] : len \in 0..MaxCoins}

\* the latest boosts of DexScreener: the chainId of each
Boosts == UNION {[1..len -> {base, bsc}] : len \in 0..MaxBoosts}

Token(symbol, tokenAddress, chain) ==
    [symbol |-> symbol, tokenAddress |-> tokenAddress, chain |-> chain]

DetailRequests(reqs) ==
    {n \in DOMAIN reqs : reqs[n].endpoint = "coingecko/coins/{id}"}

\* Faulty variant of PromiseAll: fulfilled as soon as one promise is.
PromiseAny(reqs, ns) ==
    IF \E n \in ns : reqs[n].status = "ok" THEN "ok"
    ELSE IF \E n \in ns : reqs[n].status = "pending" THEN "pending"
    ELSE "failed"

\* Promise.all over the promises of the requests ns: rejected as soon as one
\* of them is, fulfilled when all of them are
PromiseAll(reqs, ns) ==
    IF \E n \in ns : reqs[n].status = "failed" THEN "failed"
    ELSE IF \E n \in ns : reqs[n].status = "pending" THEN "pending"
    ELSE "ok"

\* Faulty variant of CoinGeckoTokens: the tokens in the order in which the
\* detail requests were answered.
CoinGeckoTokensAsAnswered(reqs) ==
    [k \in 1..Cardinality(DetailRequests(reqs)) |->
        LET n == CHOOSE m \in DetailRequests(reqs) :
                    Cardinality({j \in DetailRequests(reqs) :
                                    reqs[j].at < reqs[m].at}) = k - 1
        IN Token(reqs[n].arg, "undefined", MultiChain)]

\* the tokens getCoinGeckoTrending returns: one per detail request, in the
\* order of the coins
CoinGeckoTokens(reqs) ==
    [k \in 1..Cardinality(DetailRequests(reqs)) |->
        LET n == CHOOSE m \in DetailRequests(reqs) :
                    Cardinality({j \in DetailRequests(reqs) : j < m}) = k - 1
        IN Token(reqs[n].arg, "undefined", MultiChain)]

\* the tokens getDexScreenerTrending returns: one per boost, or none after
\* the request failed (the catch returns [])
DexScreenerTokens(outcome, boosts) ==
    IF outcome = "ok"
    THEN [n \in DOMAIN boosts |-> Token("undefined", n, boosts[n])]
    ELSE <<>>

\* the filter of the handler over the DexScreener tokens
OnChain(p, token) ==
    \/ "chain" \notin DOMAIN p
    \/ p.chain = <<>>
    \/ toLowerCase(token.chain) = toLowerCase(p.chain)

FilteredDexTokens(p, dexTokens) ==
    LET Test(token) == OnChain(p, token)
    IN Slice(SelectSeq(dexTokens, Test), LimitOrDefault(p))

\* the success callback and `return true`
TrendingDelivered(tokens) ==
    Deliver(Message("success", "Trending tokens", tokens), "true")

\* the catch of the handler
TrendingFailed ==
    Deliver(Message("error", "Error finding trending tokens:", <<>>), "false")

\* the handler after getCoinGeckoTrending has returned cgTokens, reqs being
\* the requests so far: on to getDexScreenerTrending, or to the callback
AfterCoinGecko(reqs, cgTokens) ==
    /\ trendingTokens' = trendingTokens \o cgTokens
    /\ IF Source(params) = "all"
       THEN /\ requests' = Append(reqs,
                    Request("api.dexscreener.com/token-boosts/latest/v1",
                            <<>>))
            /\ hpc' = "getDexScreenerTrending"
            /\ UNCHANGED <<messages, ret>>
       ELSE /\ requests' = reqs
            /\ TrendingDelivered(trendingTokens \o cgTokens)

\* findTrendingTokens.handler up to its first request; there is no
\* processing message
findTrendingTokens ==
    /\ action = "findTrendingTokens"
    /\ hpc = "invoked"
    /\ \E p \in TrendingParams :
        /\ params' = p
        /\ IF Source(p) \in {"all", "coingecko"}
           THEN /\ requests' = Append(requests,
                        Request("coingecko/search/trending", <<>>))
                /\ hpc' = "trending"
                /\ UNCHANGED <<messages, ret>>
           ELSE IF Source(p) = "dexscreener"
           THEN /\ requests' = Append(requests,
                        Request("api.dexscreener.com/token-boosts/latest/v1",
                                <<>>))
                /\ hpc' = "getDexScreenerTrending"
                /\ UNCHANGED <<messages, ret>>
           ELSE /\ requests' = requests
                /\ TrendingDelivered(<<>>)
    /\ UNCHANGED <<trendingTokens, classifierVars, recommendation, callers,
                   action>>

\* getCoinGeckoTrending: client.trending() settles.  After a response, the
\* map over coins.slice(0, limit) calls client.coinId for every coin at
\* once; Promise.all of no promise is fulfilled at once.
trending ==
    /\ action = "findTrendingTokens"
    /\ hpc = "trending"
    /\ \E outcome \in Outcomes, coins \in TrendingCoins :
        LET reqs == Settle(requests, 1, outcome)
            chosen == Slice(coins, LimitOrDefault(params))
            issued == reqs \o [n \in DOMAIN chosen |->
                                Request("coingecko/coins/{id}", chosen[n])]
        IN IF outcome = "failed"
           THEN /\ requests' = reqs
                /\ TrendingFailed
                /\ UNCHANGED trendingTokens
           ELSE IF chosen = <<>>
           THEN AfterCoinGecko(issued, <<>>)
           ELSE /\ requests' = issued
                /\ hpc' = "coinId"
                /\ UNCHANGED <<messages, ret, trendingTokens>>
    /\ UNCHANGED <<params, classifierVars, recommendation, callers, action>>

\* one client.coinId settles.  While the handler waits for Promise.all, a
\* rejection takes it to its catch, and the last fulfilment takes it on;
\* after the handler has returned, the requests still pending settle with
\* no effect.
coinId ==
    /\ action = "findTrendingTokens"
    /\ \E n \in DetailRequests(requests), outcome \in Outcomes :
        /\ requests[n].status = "pending"
        /\ LET reqs == Settle(requests, n, outcome)
               all == PromiseAll(reqs, DetailRequests(reqs))
           IN IF hpc # "coinId" \/ all = "pending"
              THEN /\ requests' = reqs
                   /\ UNCHANGED <<hpc, messages, ret, trendingTokens>>
              ELSE IF all = "failed"
              THEN /\ requests' = reqs
                   /\ TrendingFailed
                   /\ UNCHANGED trendingTokens
              ELSE AfterCoinGecko(reqs, CoinGeckoTokens(reqs))
    /\ UNCHANGED <<params, classifierVars, recommendation, callers, action>>

\* the request of getDexScreenerTrending settles, and the handler runs on to
\* its return
getDexScreenerTrending ==
    /\ action = "findTrendingTokens"
    /\ hpc = "getDexScreenerTrending"
    /\ \E outcome \in Outcomes, boosts \in Boosts :
        LET dexTokens == DexScreenerTokens(outcome, boosts)
            tokens == trendingTokens \o FilteredDexTokens(params, dexTokens)
        IN /\ requests' = Settle(requests, Len(requests), outcome)
           /\ trendingTokens' = tokens
           /\ TrendingDelivered(tokens)
    /\ UNCHANGED <<params, classifierVars, recommendation, callers, action>>

(* checkTokenSecurity (GoPlus) *)

\* what generateObjectDeprecated extracts for checkTokenSecurity: a chain id
\* ("missing" when the message names none) and a token address
ChainIds == {"missing", "1"}
TokenAddresses == {<<"0", "x", "A", "b">>, <<"0", "x", "a", "b">>}
SecurityParams ==
    {Merge(c, t) :
        c \in {<<>>} \cup {[k \in {"chainId"} |-> v] : v \in ChainIds},
        t \in {<<>>} \cup {[k \in {"tokenAddress"} |-> v] :
                                v \in TokenAddresses}}

\* the facts GoPlus reports for a token
SecurityFacts ==
    {f \in FewInputs : f["is_proxy"] = Zero /\ "buy_tax" \notin DOMAIN f}

\* response.data.result: missing, or an object with at most one entry, under
\* the address in lowercase or as it was sent
SecurityResults(tokenAddress) ==
    {[defined |-> FALSE, entries |-> <<>>], [defined |-> TRUE, entries |-> <<>>]}
    \cup {[defined |-> TRUE, entries |-> [k \in {key} |-> f]] :
            key \in {tokenAddress, toLowerCase(tokenAddress)},
            f \in SecurityFacts}

Null == [null |-> TRUE, value |-> <<>>]
NotNull(value) == [null |-> FALSE, value |-> value]

\* Faulty variant of TokenSecurity: the entry is looked up under the address
\* as it was extracted.
TokenSecurityAsSent(p, outcome, result) ==
    IF outcome = "failed" \/ "tokenAddress" \notin DOMAIN p
        \/ ~result.defined
    THEN Null
    ELSE IF p.tokenAddress \in DOMAIN result.entries
    THEN NotNull(result.entries[p.tokenAddress])
    ELSE Null

\* what getTokenSecurity returns: the entry of the address in lowercase, or
\* null.  After a failed request, and when tokenAddress.toLowerCase throws
\* for want of an address, the catch returns null.
TokenSecurity(p, outcome, result) ==
    IF outcome = "failed" \/ "tokenAddress" \notin DOMAIN p
        \/ ~result.defined
    THEN Null
    ELSE IF toLowerCase(p.tokenAddress) \in DOMAIN result.entries
    THEN NotNull(result.entries[toLowerCase(p.tokenAddress)])
    ELSE Null

\* checkTokenSecurity.handler up to the request of getTokenSecurity
checkTokenSecurity ==
    /\ action = "checkTokenSecurity"
    /\ hpc = "invoked"
    /\ \E p \in SecurityParams :
        /\ params' = p
        /\ IF "chainId" \in DOMAIN p /\ p.chainId = "missing"
           THEN /\ messages' = messages \o
                        <<Message("processing",
                                  "Analyzing token security...", <<>>),
                          Message("error",
                                  "Chain ID is missing. Please provide a valid chain ID.",
                                  <<>>)>>
                /\ requests' = requests
                /\ hpc' = "returned"
                /\ ret' = "false"
           ELSE /\ messages' = Append(messages,
                        Message("processing", "Analyzing token security...",
                                <<>>))
                /\ requests' = Append(requests,
                        Request("api.gopluslabs.io/api/v1/token_security", p))
                /\ hpc' = "getTokenSecurity"
                /\ ret' = ret
    /\ UNCHANGED <<trendingTokens, classifierVars, recommendation, callers,
                   action>>

\* the request of getTokenSecurity settles, and the handler runs on to its
\* return; the text of the success message is formatSecurityResponse of the
\* facts, which calls calculateRiskLevel
getTokenSecurity ==
    /\ action = "checkTokenSecurity"
    /\ hpc = "getTokenSecurity"
    /\ \E outcome \in Outcomes :
       \E result \in SecurityResults(
                        IF "tokenAddress" \in DOMAIN params
                        THEN params.tokenAddress ELSE <<>>) :
        LET securityInfo == TokenSecurity(params, outcome, result)
            score == Total(Additions(securityInfo.value))
            level == DetermineRiskLevel(score)
        IN /\ requests' =
                IF outcome = "ok"
                THEN Respond(Settle(requests, 1, outcome), 1, result)
                ELSE Settle(requests, 1, outcome)
           /\ IF securityInfo.null
              THEN /\ Deliver(Message("error",
                                "Could not fetch security information for this token.",
                                <<>>), "false")
                   /\ UNCHANGED <<classifierVars, recommendation>>
              ELSE /\ Deliver(Message("success", "Token Security Analysis",
                                      securityInfo.value), "true")
                   /\ info' = ArgumentAfterCall(securityInfo.value)
                   /\ riskScore' = score
                   /\ riskLevel' = level
                   /\ recommendation' = getRecommendation(level)
                   /\ calls' = calls + 1
                   /\ UNCHANGED <<pc, first>>
    /\ UNCHANGED <<params, trendingTokens, callers, action>>

(* getTrendingTokensOnChain (DefiLlama yields) *)

Ethereum == <<"E", "t", "h", "e", "r", "e", "u", "m">>
Solana == <<"S", "o", "l", "a", "n", "a">>
BSC == <<"B", "S", "C">>

\* supportedChains: its first four names
supportedChains == {Ethereum, Solana, Base, BSC}

\* Faulty variant of ChainSupported: the names compared without regard to
\* case.
ChainSupportedIgnoringCase(p) ==
    /\ "chain" \in DOMAIN p
    /\ toLowerCase(p.chain) \in {toLowerCase(c) : c \in supportedChains}

\* supportedChains.includes(params.chain): strict equality with an entry;
\* a missing chain is undefined, which is no entry
ChainSupported(p) == "chain" \in DOMAIN p /\ p.chain \in supportedChains

\* what generateObjectDeprecated extracts for getTrendingTokensOnChain
ChainParams == {<<>>} \cup {[chain |-> c] : c \in {Base, base}}

\* response.data.data of /pools: pools of any chain, in any order
Pools ==
    UNION {[1..len -> [chain : {Base, Solana}, tvlUsd : {1, 2}]] :
            len \in 0..MaxPools}

\* Array.prototype.sort with (a, b) => b.tvlUsd - a.tvlUsd: descending and
\* stable
InsertByTvl(sorted, pool) ==
    LET k == Cardinality({n \in DOMAIN sorted :
                            sorted[n].tvlUsd >= pool.tvlUsd})
    IN SubSeq(sorted, 1, k) \o <<pool>> \o SubSeq(sorted, k + 1, Len(sorted))

RECURSIVE SortByTvl(_)
SortByTvl(pools) ==
    IF pools = <<>> THEN <<>>
    ELSE InsertByTvl(SortByTvl(SubSeq(pools, 1, Len(pools) - 1)),
                     pools[Len(pools)])

\* the 100 of `.slice(0, 100)`
TopPools == 100

\* what getToPoolByTVL returns: the pools of the chain, largest first, at
\* most 100; after a failed request the catch returns []
ToPoolByTVL(chain, outcome, data) ==
    IF outcome = "failed" THEN <<>>
    ELSE LET Test(pool) == pool.chain = chain
         IN Slice(SortByTvl(SelectSeq(data, Test)), TopPools)

\* getTrendingTokensOnChain.handler up to the request of getToPoolByTVL
getTrendingTokensOnChain ==
    /\ action = "getTrendingTokensOnChain"
    /\ hpc = "invoked"
    /\ \E p \in ChainParams :
        /\ params' = p
        /\ IF ChainSupported(p)
           THEN /\ messages' = Append(messages,
                        Message("processing",
                                "Fetching trending tokens on network...",
                                <<>>))
                /\ requests' = Append(requests,
                        Request("yields.llama.fi/pools", <<>>))
                /\ hpc' = "getToPoolByTVL"
                /\ ret' = ret
           ELSE /\ messages' = messages \o
                        <<Message("processing",
                                  "Fetching trending tokens on network...",
                                  <<>>),
                          Message("error", "Unsupported chain:", <<>>)>>
                /\ requests' = requests
                /\ hpc' = "returned"
                /\ ret' = "false"
    /\ UNCHANGED <<trendingTokens, classifierVars, recommendation, callers,
                   action>>

\* the request of getToPoolByTVL settles, and the handler runs on to its
\* return
getToPoolByTVL ==
    /\ action = "getTrendingTokensOnChain"
    /\ hpc = "getToPoolByTVL"
    /\ \E outcome \in Outcomes, data \in Pools :
        LET poolsData == ToPoolByTVL(params.chain, outcome, data)
        IN /\ requests' = Settle(requests, 1, outcome)
           /\ IF poolsData = <<>>
              THEN Deliver(Message("success", "No trending tokens found for",
                                   <<>>), "true")
              ELSE Deliver(Message("success", "Top Pools by TVL:", poolsData),
                           "true")
    /\ UNCHANGED <<params, trendingTokens, classifierVars, recommendation,
                   callers, action>>

(* One invocation of any of the handlers *)

NextHandlers ==
    \/ searchGoogle
    \/ getGoogleSearchResults
    \/ getPageContent
    \/ getURLContent
    \/ findTrendingTokens
    \/ trending
    \/ coinId
    \/ getDexScreenerTrending
    \/ getGlobalData
    \/ global
    \/ getExchanges
    \/ exchanges
    \/ getSimplePrice
    \/ simplePrice
    \/ checkTokenSecurity
    \/ getTokenSecurity
    \/ getTrendingTokensOnChain
    \/ getToPoolByTVL

SpecHandlers == InitHandlers /\ [][NextHandlers]_vars

----------------------------------------------------------------------------
(* The weight table of the specification, and what the claims are about *)

Tiers == {"SAFE", "LOW", "MEDIUM", "HIGH", "CRITICAL"}

\* the eleven conditions: each risk flag by its name, and two more
Conditions == RiskFlags \cup {"not_open_source", "tax_over_10"}

TableWeight(c) ==
    CASE c = "is_honeypot" -> 100
      [] c = "honeypot_with_same_creator" -> 100
      [] c = "hidden_owner" -> 90
      [] c = "selfdestruct" -> 80
      [] c = "can_take_back_ownership" -> 70
      [] c = "tax_over_10" -> 70
      [] c = "not_open_source" -> 60
      [] c = "is_mintable" -> 40
      [] c = "trading_cooldown" -> 30
      [] c = "transfer_pausable" -> 30
      [] c = "is_proxy" -> 20

RECURSIVE SumWeights(_)
SumWeights(cs) ==
    IF cs = {} THEN 0
    ELSE LET c == CHOOSE x \in cs : TRUE
         IN  TableWeight(c) + SumWeights(cs \ {c})

Has(i, name, value) == name \in DOMAIN i /\ i[name] = value
Absent(i, name) == name \notin DOMAIN i

\* the risk flags that are set: the value is exactly "1"
SetFlags(i) == {c \in RiskFlags : Has(i, c, One)}

\* a tax field exceeds 10 when the number parseFloat reads from it does
Exceeds10(i, tax) == GreaterThan(parseFloat(Get(i, tax)), 10)
TaxCondition(i) ==
    IF \E tax \in Taxes : Exceeds10(i, tax) THEN {"tax_over_10"} ELSE {}

\* The conditions a record triggers as calculateRiskLevel reads them: the
\* open-source flag says "not open source" when it is exactly "0".
Triggered(i) ==
    SetFlags(i)
    \cup (IF Has(i, "is_open_source", Zero) THEN {"not_open_source"} ELSE {})
    \cup TaxCondition(i)

\* The conditions a record triggers under the parsing contract of the
\* specification: a flag is true only when it is exactly "1", so an
\* open-source flag with any other value, or none, says not open source.
TriggeredByContract(i) ==
    SetFlags(i)
    \cup (IF Has(i, "is_open_source", One) THEN {} ELSE {"not_open_source"})
    \cup TaxCondition(i)

Returned == pc = "return"

\* C1: when calculateRiskLevel returns, riskScore is the sum of the table
\* weights of exactly the conditions the record triggers: every triggered
\* condition counts with its full weight, nothing is capped or merged, and a
\* record that triggers all eleven scores the sum of the whole table.
C1_ScoreIsSumOfTriggeredWeights ==
    Returned =>
        /\ riskScore = SumWeights(TriggeredByContract(info))
        /\ TriggeredByContract(info) = Conditions
            => riskScore = SumWeights(Conditions)

\* C2: every flag the classifier reads counts as true only when it is
\* exactly "1"; any other value, or none, counts as false: the score of a
\* record is the score of the record with that flag set to "0".  For the
\* open-source flag this means that any value other than "1" adds the 60 of
\* "not open-source".
C2_FlagTrueOnlyWhenExactlyOne ==
    Returned =>
        \A c \in Flags :
            ~Has(info, c, One) =>
                riskScore = Total(Additions(With(info, c, Zero)))

\* C3: the tier is the first threshold, from the highest down, that the
\* score reaches: >= 100 CRITICAL, >= 70 HIGH, >= 40 MEDIUM, >= 20 LOW, else
\* SAFE; 20, 40, 70 and 100 belong to the upper tier and 19, 39, 69 and 99
\* to the lower one.
C3_TierByInclusiveThresholds ==
    Returned =>
        /\ riskLevel = "CRITICAL" <=> riskScore >= 100
        /\ riskLevel = "HIGH" <=> riskScore \in 70..99
        /\ riskLevel = "MEDIUM" <=> riskScore \in 40..69
        /\ riskLevel = "LOW" <=> riskScore \in 20..39
        /\ riskLevel = "SAFE" <=> riskScore < 20
        /\ riskScore = 100 => riskLevel = "CRITICAL"
        /\ riskScore = 99 => riskLevel = "HIGH"
        /\ riskScore = 70 => riskLevel = "HIGH"
        /\ riskScore = 69 => riskLevel = "MEDIUM"
        /\ riskScore = 40 => riskLevel = "MEDIUM"
        /\ riskScore = 39 => riskLevel = "LOW"
        /\ riskScore = 20 => riskLevel = "LOW"
        /\ riskScore = 19 => riskLevel = "SAFE"

C3_Witness_BoundaryScore ==
    Returned /\ riskScore = 70 /\ riskLevel = "HIGH"

RiskFlagsAllZero(i) == \A c \in RiskFlags : Has(i, c, Zero)
NoTaxFields(i) == \A tax \in Taxes : Absent(i, tax)

\* C4 as stated: every flag "0", the open-source flag included, and no tax
\* fields give score 0 and tier SAFE.
C4_AllFlagsZeroIsSafe ==
    (/\ Returned
     /\ RiskFlagsAllZero(info)
     /\ Has(info, "is_open_source", Zero)
     /\ NoTaxFields(info))
        => riskScore = 0 /\ riskLevel = "SAFE"

\* C4 amended: with every risk flag "0" and no tax fields, score 0 and tier
\* SAFE when the open-source flag is "1"; when it is "0" the contract is not
\* open source and the score is 60, the tier MEDIUM.
C4_CleanOpenSourceIsSafe ==
    (Returned /\ RiskFlagsAllZero(info) /\ NoTaxFields(info)) =>
        /\ Has(info, "is_open_source", One) =>
                riskScore = 0 /\ riskLevel = "SAFE"
        /\ Has(info, "is_open_source", Zero) =>
                riskScore = 60 /\ riskLevel = "MEDIUM"

C4_Witness_CleanOpenSource ==
    /\ Returned
    /\ RiskFlagsAllZero(info)
    /\ NoTaxFields(info)
    /\ Has(info, "is_open_source", One)
    /\ riskLevel = "SAFE"

HoneypotAlone(i) ==
    /\ Has(i, "is_honeypot", One)
    /\ \A c \in RiskFlags \ {"is_honeypot"} : Has(i, c, Zero)
    /\ NoTaxFields(i)

\* C5 as stated: honeypot "1", every other flag "0" (the open-source flag
\* too), no tax fields: score exactly 100, tier CRITICAL.
C5_HoneypotAloneScores100 ==
    (Returned /\ HoneypotAlone(info) /\ Has(info, "is_open_source", Zero))
        => riskScore = 100 /\ riskLevel = "CRITICAL"

\* C5 amended: honeypot "1", every other risk flag "0", no tax fields: the
\* tier is CRITICAL; the score is exactly 100 when the open-source flag is
\* "1", and 160 when it is "0".
C5_HoneypotAloneIsCritical ==
    (Returned /\ HoneypotAlone(info)) =>
        /\ riskLevel = "CRITICAL"
        /\ Has(info, "is_open_source", One) => riskScore = 100
        /\ Has(info, "is_open_source", Zero) => riskScore = 160

C5_Witness_HoneypotAlone ==
    /\ Returned
    /\ HoneypotAlone(info)
    /\ Has(info, "is_open_source", One)
    /\ riskScore = 100

Fifteen == <<"1", "5">>

\* C6 as stated: buy_tax "15" and every flag "0" (the open-source flag
\* too): score exactly 70, tier HIGH.
C6_BuyTax15Scores70 ==
    (/\ Returned
     /\ Has(info, "buy_tax", Fifteen)
     /\ RiskFlagsAllZero(info)
     /\ Has(info, "is_open_source", Zero))
        => riskScore = 70 /\ riskLevel = "HIGH"

\* C6 amended: buy_tax "15" and every risk flag "0", whatever sell_tax is:
\* score 70 and tier HIGH when the open-source flag is "1"; score 130 and
\* tier CRITICAL when it is "0".
C6_BuyTax15OpenSourceIsHigh ==
    (Returned /\ Has(info, "buy_tax", Fifteen) /\ RiskFlagsAllZero(info)) =>
        /\ Has(info, "is_open_source", One) =>
                riskScore = 70 /\ riskLevel = "HIGH"
        /\ Has(info, "is_open_source", Zero) =>
                riskScore = 130 /\ riskLevel = "CRITICAL"

C6_Witness_BuyTax15 ==
    /\ Returned
    /\ Has(info, "buy_tax", Fifteen)
    /\ Absent(info, "sell_tax")
    /\ RiskFlagsAllZero(info)
    /\ Has(info, "is_open_source", One)
    /\ riskLevel = "HIGH"

\* the characters a decimal number is written with
NumberChars == Digits \cup {".", "+", "-", "e", "E"}

\* s, after leading white space and one sign, begins with a digit, or with
\* a point and a digit: s has a leading number, whatever follows it
RECURSIVE BeginsWithNumber(_)
BeginsWithNumber(s) ==
    IF s = <<>> THEN FALSE
    ELSE IF Head(s) \in WhiteSpace THEN BeginsWithNumber(Tail(s))
    ELSE LET u == IF Head(s) \in {"+", "-"} THEN Tail(s) ELSE s
         IN  /\ u # <<>>
             /\ \/ Head(u) \in Digits
                \/ Head(u) = "." /\ Len(u) >= 2 /\ u[2] \in Digits

\* s is a number from its first character to its last
WhollyNumeric(s) ==
    BeginsWithNumber(s) /\ \A k \in 1..Len(s) : s[k] \in NumberChars

\* the conditions of the flags alone, as calculateRiskLevel reads the flags
FlagConditions(i) == Triggered(i) \ {"tax_over_10"}

C8_TotalOverAllFacts ==
    /\ pc \in {"call", "return"}
    /\ Returned => riskLevel \in Tiers

C8_Witness_AbsentAndMalformedFields ==
    /\ Returned
    /\ Absent(info, "sell_tax")
    /\ Has(info, "buy_tax", <<"a", "b", "c">>)
    /\ \A c \in Flags : Absent(info, c)
    /\ riskLevel = "SAFE"

Rank(tier) ==
    CASE tier = "SAFE" -> 0
      [] tier = "LOW" -> 1
      [] tier = "MEDIUM" -> 2
      [] tier = "HIGH" -> 3
      [] tier = "CRITICAL" -> 4
      [] OTHER -> 0 - 1

\* C9: classify is monotonic: the tier of a score is at least as severe, in
\* the order SAFE < LOW < MEDIUM < HIGH < CRITICAL, as the tier of every
\* smaller score.
C9_ClassifyMonotonic ==
    Returned =>
        \A s \in 0..riskScore :
            Rank(DetermineRiskLevel(s)) <= Rank(riskLevel)

C9_Witness_HigherScoreHigherTier ==
    /\ Returned
    /\ riskScore = 100
    /\ Rank(DetermineRiskLevel(99)) < Rank(riskLevel)

\* C10: calculateRiskLevel is deterministic and pure: a call leaves its
\* argument as it was, and a call on the facts of the first call returns
\* the score and tier of the first call, whatever calls were made between.
C10_DeterministicAndPure ==
    [][pc = "call" =>
        /\ info' = info
        /\ (calls > 0 /\ info = first.facts) =>
                riskScore' = first.score /\ riskLevel' = first.level]_vars

C10_Witness_SameFactsAgain ==
    /\ Returned
    /\ calls >= 2
    /\ info = first.facts
    /\ riskScore = first.score
    /\ riskScore > 0

----------------------------------------------------------------------------
Rendered == pc = "rendered"

\* C11: the recommendation is a lookup by tier with five sentences, no two
\* of them equal; for every facts record, the recommendation in the text of
\* formatSecurityResponse is the sentence of the tier that
\* calculateRiskLevel returned, and never the "Insufficient data" fallback.
C11_RecommendationOfReturnedTier ==
    /\ \A t1, t2 \in Tiers :
            t1 # t2 => getRecommendation(t1) # getRecommendation(t2)
    /\ Rendered =>
            /\ riskLevel \in Tiers
            /\ recommendation = getRecommendation(riskLevel)
            /\ recommendation # InsufficientData

\* a record of facts whose text carries the sentence of the MEDIUM tier
C11_Witness_MediumSentenceRendered ==
    /\ Rendered
    /\ riskLevel = "MEDIUM"
    /\ recommendation =
        "*RECOMMENDATION:* Proceed with caution. Some security concerns identified."

----------------------------------------------------------------------------
\* tax values that are numbers: exactly ten, and above ten
Ten == <<"1", "0">>
AboveTen == {<<"1", "5">>, <<"1", "0", ".", "5">>, <<"1", "e", "2">>}

\* what the tax fields added to the score
TaxShare == riskScore - SumWeights(FlagConditions(info))

\* C20: the tax threshold is strict and the condition is counted once: with
\* the tax fields absent or exactly 10 the condition adds nothing; a value
\* above 10 in either field adds 70; a value above 10 in both fields adds 70
\* and not 140.
C20_TaxStrictAndCountedOnce ==
    Returned =>
        /\ (\A tax \in Taxes : Absent(info, tax) \/ Has(info, tax, Ten))
                => TaxShare = 0
        /\ (\E tax \in Taxes : \E v \in AboveTen : Has(info, tax, v))
                => TaxShare = 70

\* both fields above 10: 70 is added once
C20_Witness_BothAboveTen ==
    /\ Returned
    /\ Has(info, "buy_tax", <<"1", "5">>)
    /\ Has(info, "sell_tax", <<"1", "0", ".", "5">>)
    /\ TaxShare = 70

----------------------------------------------------------------------------
\* the tier of a score, by the intervals of the specification
TierOfScore(score) ==
    CASE score \in 0..19 -> "SAFE"
      [] score \in 20..39 -> "LOW"
      [] score \in 40..69 -> "MEDIUM"
      [] score \in 70..99 -> "HIGH"
      [] OTHER -> "CRITICAL"

\* C17: under concurrent use, whatever the number of callers and the order
\* in which their calls run, each caller obtains the score and the tier of
\* its own facts, the ones a call running alone obtains for them.
C17_EachCallerGetsItsOwnResult ==
    \A c \in DOMAIN callers :
        callers[c].at # "call" =>
            /\ callers[c].at = "return"
            /\ callers[c].score = SumWeights(Triggered(callers[c].facts))
            /\ callers[c].level = TierOfScore(callers[c].score)

\* two callers with different facts have both returned, the one that ran
\* second with the lower score
C17_Witness_TwoCallersDone ==
    /\ pc = "callers"
    /\ \A c \in DOMAIN callers : callers[c].at = "return"
    /\ \E c, d \in DOMAIN callers :
            /\ callers[c].level = "CRITICAL"
            /\ callers[d].level = "SAFE"
            /\ info = callers[d].facts

----------------------------------------------------------------------------
(* The handlers: what the claims are about *)

\* the handler has returned
Done == hpc = "returned"

Failed(reqs) == {n \in DOMAIN reqs : reqs[n].status = "failed"}
Pending(reqs) == {n \in DOMAIN reqs : reqs[n].status = "pending"}
RequestsTo(reqs, endpoint) ==
    {n \in DOMAIN reqs : reqs[n].endpoint = endpoint}

\* the terminal messages; those of the google-search plugin have no type
\* and are told by their text
IsFailureMessage(m) ==
    \/ m.type = "error"
    \/ /\ m.type = "undefined"
       /\ m.text \in {"Error: error making google search",
                      "Error: error fetching page content"}
IsSuccessMessage(m) ==
    \/ m.type = "success"
    \/ /\ m.type = "undefined"
       /\ m.text \in {"Search Results:", "No results found.", "Summary:"}
FailureMessages == {k \in DOMAIN messages : IsFailureMessage(messages[k])}
SuccessMessages == {k \in DOMAIN messages : IsSuccessMessage(messages[k])}

\* C12: for every handler, when an outbound request of the invocation has
\* failed, the callback has been given a failure message and no success
\* message, and the handler has returned false.
C12_FailedRequestGivesFailure ==
    (Done /\ Failed(requests) # {}) =>
        /\ FailureMessages # {}
        /\ SuccessMessages = {}
        /\ ret = "false"

\* C13: findTrendingTokens with source "all" reports success only if the
\* CoinGecko fetch and the DexScreener fetch both succeeded: no request of
\* the invocation failed.
C13_AllSourcesSuccessNeedsBoth ==
    (Done /\ action = "findTrendingTokens" /\ Source(params) = "all"
        /\ SuccessMessages # {}) =>
        /\ Failed(requests) = {}
        /\ RequestsTo(requests, "coingecko/search/trending") # {}
        /\ RequestsTo(requests,
                      "api.dexscreener.com/token-boosts/latest/v1") # {}

\* C14: no retry: a step after which a request has failed issues no request
\* to the endpoint of that request, and an invocation gives the callback at
\* most one terminal (success or failure) message.
C14_NoRetryOneTerminalMessage ==
    /\ [](Cardinality(FailureMessages \cup SuccessMessages) <= 1)
    /\ [][\A n \in DOMAIN requests :
            requests'[n].status = "failed" =>
                RequestsTo(requests', requests[n].endpoint)
                    = RequestsTo(requests, requests[n].endpoint)]_vars

\* one detail request has failed and the handler has returned with its one
\* failure message, while another detail request was answered
C14_Witness_FailedAndNotRetried ==
    /\ Done
    /\ \E n, m \in DetailRequests(requests) :
            requests[n].status = "failed" /\ requests[m].status = "ok"
    /\ Cardinality(FailureMessages) = 1
    /\ SuccessMessages = {}

\* C15 as stated: an invocation issues at most two outbound requests.
C15_AtMostTwoRequests == Len(requests) <= 2

\* C15, amended: an invocation issues at most two outbound requests besides
\* the coin-detail requests of getCoinGeckoTrending, of which there are at
\* most `limit` (5 for a missing or zero limit); only findTrendingTokens
\* issues more than one request.
C15_AtMostTwoBesidesCoinDetails ==
    /\ Cardinality(DOMAIN requests \ DetailRequests(requests)) <= 2
    /\ Cardinality(DetailRequests(requests)) <= LimitOrDefault(params)
    /\ action # "findTrendingTokens" => Len(requests) <= 1

\* limit 2, source "all": the trending request, two detail requests and the
\* DexScreener request
C15_Witness_FourRequests ==
    /\ action = "findTrendingTokens"
    /\ "limit" \in DOMAIN params
    /\ params.limit = 2
    /\ Len(requests) = 4

\* C16 as stated: at most one request of an invocation is in flight.
C16_AtMostOneInFlight == Cardinality(Pending(requests)) <= 1

\* C16, amended: the requests of an invocation are sequential, except the
\* coin-detail requests of getCoinGeckoTrending, which are issued together
\* and are in flight together: at any moment the requests in flight are one
\* request or coin-detail requests only, and a step that issues requests
\* leaves no earlier request in flight.
C16_SequentialBesidesCoinDetails ==
    /\ [](\/ Cardinality(Pending(requests)) <= 1
          \/ Pending(requests) \subseteq DetailRequests(requests))
    /\ [][Len(requests') > Len(requests) =>
            Pending(requests') \cap DOMAIN requests = {}]_vars

\* two detail requests in flight together
C16_Witness_TwoDetailsInFlight ==
    /\ hpc = "coinId"
    /\ Cardinality(Pending(requests) \cap DetailRequests(requests)) >= 2

\* C18: getSimplePrice asks for, and replies with, the prices in the
\* currencies the user asked for (params.vs_currencies).
C18_PricesInRequestedCurrencies ==
    (action = "getSimplePrice" /\ "vs_currencies" \in DOMAIN params) =>
        /\ \A n \in DOMAIN requests :
                Range(requests[n].arg.vs_currencies)
                    = Range(params.vs_currencies)
        /\ \A k \in SuccessMessages :
                \A coin \in DOMAIN messages[k].data :
                    DOMAIN messages[k].data[coin]
                        = Range(params.vs_currencies)

\* C19: when a chain was extracted, every token findTrendingTokens delivers
\* is on that chain, compared case-insensitively, whichever source it came
\* from.
C19_DeliveredTokensOnChain ==
    (action = "findTrendingTokens" /\ "chain" \in DOMAIN params) =>
        \A k \in SuccessMessages :
            \A n \in DOMAIN messages[k].data :
                toLowerCase(messages[k].data[n].chain)
                    = toLowerCase(params.chain)

\* C21: the number of tokens findTrendingTokens delivers never exceeds the
\* extracted limit (5 when no limit was extracted, a limit of 0 counting as
\* none), whatever the source.
C21_DeliveredTokensWithinLimit ==
    action = "findTrendingTokens" =>
        \A k \in SuccessMessages :
            Len(messages[k].data) <= LimitOrDefault(params)

\* the four conditions under the comment "Critical risks"
CriticalRisks ==
    {"is_honeypot", "hidden_owner", "selfdestruct",
     "honeypot_with_same_creator"}

NoSecurityEntry ==
    \/ requests[1].status = "failed"
    \/ "tokenAddress" \notin DOMAIN params
    \/ ~requests[1].response.defined
    \/ toLowerCase(params.tokenAddress)
            \notin DOMAIN requests[1].response.entries

\* C23: in checkTokenSecurity, with the chainId "missing" the handler gives
\* an error message, returns false and issues no request; and when the
\* request failed or its result has no entry for the token address in
\* lowercase, the handler gives the "Could not fetch security information"
\* error, returns false, gives no success message and computes no tier.
C23_NoSecurityInfoNoTier ==
    (action = "checkTokenSecurity" /\ Done) =>
        /\ ("chainId" \in DOMAIN params /\ params.chainId = "missing") =>
            /\ requests = <<>>
            /\ Len(messages) = 2
            /\ messages[2] = Message("error",
                    "Chain ID is missing. Please provide a valid chain ID.",
                    <<>>)
            /\ ret = "false"
        /\ (requests # <<>> /\ NoSecurityEntry) =>
            /\ Len(messages) = 2
            /\ messages[2] = Message("error",
                    "Could not fetch security information for this token.",
                    <<>>)
            /\ ret = "false"
            /\ SuccessMessages = {}
            /\ riskLevel = "none"
            /\ calls = 0

\* the request was answered, with an entry under the address in mixed case
\* only: no entry under the address in lowercase
C23_Witness_EntryUnderMixedCaseOnly ==
    /\ action = "checkTokenSecurity"
    /\ Done
    /\ requests # <<>>
    /\ requests[1].status = "ok"
    /\ "tokenAddress" \in DOMAIN params
    /\ params.tokenAddress \in DOMAIN requests[1].response.entries
    /\ NoSecurityEntry
    /\ ret = "false"

\* C24: in getTrendingTokensOnChain, when the extracted chain is not
\* exactly, case-sensitively, one of the supportedChains entries, the
\* handler gives the "Unsupported chain" error, returns false and issues no
\* request; a pools request is issued only for a supported chain.
C24_UnsupportedChainNoRequest ==
    (action = "getTrendingTokensOnChain" /\ hpc # "invoked") =>
        /\ ("chain" \notin DOMAIN params
                \/ params.chain \notin {Ethereum, Solana, Base, BSC}) =>
            /\ Done
            /\ requests = <<>>
            /\ Len(messages) = 2
            /\ messages[2] = Message("error", "Unsupported chain:", <<>>)
            /\ ret = "false"
        /\ requests # <<>> =>
            /\ "chain" \in DOMAIN params
            /\ params.chain \in {Ethereum, Solana, Base, BSC}

\* the chain "base", which differs from the entry "Base" in case only
C24_Witness_LowercaseChainRefused ==
    /\ action = "getTrendingTokensOnChain"
    /\ Done
    /\ "chain" \in DOMAIN params
    /\ params.chain = base
    /\ requests = <<>>
    /\ ret = "false"

\* the handlers that announce progress with a message of type "processing"
Announcing ==
    {"getGlobalData", "getExchanges", "getSimplePrice", "checkTokenSecurity",
     "getTrendingTokensOnChain"}

\* C25: a handler that announces progress, invoked with a callback that does
\* not throw, gives the "processing" message first and then exactly one
\* terminal message, of type success or error, and nothing after it; it
\* returns false exactly when the terminal message is an error.
C25_ProcessingThenOneTerminal ==
    /\ [](action \in Announcing =>
            /\ messages # <<>> => messages[1].type = "processing"
            /\ \A k \in DOMAIN messages :
                    k > 1 => /\ k = 2
                             /\ messages[k].type \in {"success", "error"}
            /\ ~Done => Len(messages) <= 1 /\ ret = "none"
            /\ Done => /\ Len(messages) = 2
                       /\ ret = "false" <=> messages[2].type = "error")
    /\ [][(action \in Announcing /\ Done) =>
            messages' = messages /\ ret' = ret]_vars

\* getSimplePrice after its success message: it returned priceData
C25_Witness_PricesDelivered ==
    /\ action = "getSimplePrice"
    /\ Done
    /\ Len(messages) = 2
    /\ messages[1].type = "processing"
    /\ messages[2].type = "success"
    /\ ret = "priceData"

\* the tokens of trendingTokens that getCoinGeckoTrending returned
CgTokens ==
    LET FromCoinGecko(token) == token.chain = MultiChain
    IN SelectSeq(trendingTokens, FromCoinGecko)

\* C26: getCoinGeckoTrending issues the detail requests together, before
\* any of them is answered; in whatever order they are answered, the list
\* it returns has one token per requested coin, in the order of the
\* trending list; and if a detail request fails the call fails and the
\* handler has no token list.
C26_DetailsTogetherTokensInOrder ==
    /\ [][DetailRequests(requests') # DetailRequests(requests) =>
            /\ DetailRequests(requests) = {}
            /\ \A n \in DetailRequests(requests') :
                    requests'[n].status = "pending"]_vars
    /\ [](action = "findTrendingTokens" =>
            /\ (hpc \in {"getDexScreenerTrending", "returned"}
                    /\ Failed(requests) \cap DetailRequests(requests) = {}) =>
                /\ Len(CgTokens) = Cardinality(DetailRequests(requests))
                /\ \A k \in DOMAIN CgTokens :
                        /\ CgTokens[k].symbol = k
                        /\ requests[k + 1].arg = k
            /\ Failed(requests) \cap DetailRequests(requests) # {} =>
                /\ Done
                /\ ret = "false"
                /\ trendingTokens = <<>>
                /\ SuccessMessages = {})

\* the detail request of the second coin was answered before that of the
\* first, and the tokens are in the order of the coins
C26_Witness_AnsweredOutOfOrder ==
    /\ action = "findTrendingTokens"
    /\ Done
    /\ Len(CgTokens) >= 2
    /\ requests[3].at < requests[2].at
    /\ CgTokens[1].symbol = 1
    /\ CgTokens[2].symbol = 2

----------------------------------------------------------------------------
\* two records of facts with the same weighted fields
AgreeOnWeighted(f, g) ==
    /\ DOMAIN f \cap WeightedFields = DOMAIN g \cap WeightedFields
    /\ \A k \in DOMAIN f \cap WeightedFields : f[k] = g[k]

\* g is f with one flag changed towards risk
IsRaise(f, g) ==
    \E k \in Flags \cap DOMAIN f :
        /\ g = With(f, k, g[k])
        /\ \/ k \in RiskFlags /\ f[k] = Zero /\ g[k] = One
           \/ k = "is_open_source" /\ f[k] = One /\ g[k] = Zero

\* C27: the score and the tier depend on the weighted fields only: a call
\* with facts that agree with the facts of the first call on the ten flags
\* and the two taxes, and differ in other fields, returns the score and the
\* tier of the first call.
C27_OtherFieldsDoNotCount ==
    [][(pc = "call" /\ calls = 1 /\ AgreeOnWeighted(info, first.facts)) =>
        riskScore' = first.score /\ riskLevel' = first.level]_vars

\* the second call had the token blacklisted, the first had not
C27_Witness_BlacklistedVariant ==
    /\ Returned
    /\ calls = 2
    /\ AgreeOnWeighted(info, first.facts)
    /\ Has(info, "is_blacklisted", One)
    /\ ~Has(first.facts, "is_blacklisted", One)
    /\ riskScore = first.score
    /\ riskScore > 0

\* C28: the classifier is monotone: with all other fields fixed, changing
\* one risk flag from "0" to "1", or is_open_source from "1" to "0", lowers
\* neither the score nor the tier; and is_honeypot "1" gives CRITICAL
\* whatever the other fields.
C28_MonotoneInRiskInputs ==
    /\ [][(pc = "call" /\ calls = 1 /\ IsRaise(first.facts, info)) =>
            /\ riskScore' >= first.score
            /\ Rank(riskLevel') >= Rank(first.level)]_vars
    /\ []((Returned /\ Has(info, "is_honeypot", One)) =>
            riskLevel = "CRITICAL")

\* is_open_source went from "1" to "0" and the tier went up
C28_Witness_ClosedSourceRaisedTier ==
    /\ Returned
    /\ calls = 2
    /\ IsRaise(first.facts, info)
    /\ Has(first.facts, "is_open_source", One)
    /\ Has(info, "is_open_source", Zero)
    /\ riskScore = first.score + 60
    /\ Rank(riskLevel) > Rank(first.level)

----------------------------------------------------------------------------
\* C29: in every evaluation the score is a non-negative multiple of 10, at
\* most 690, and not strictly between 0 and 20; the tier is SAFE only when
\* the score is exactly 0, that is, only when no weighted condition is
\* triggered.
C29_ScoreShapeAndSafeOnlyUntriggered ==
    Returned =>
        /\ riskScore \in 0..690
        /\ riskScore % 10 = 0
        /\ riskScore \notin 1..19
        /\ riskLevel = "SAFE" =>
                riskScore = 0 /\ TriggeredByContract(info) = {}

====
